---- MODULE Spec2Model ----
(***************************************************************************)
(* The sentiment-analysis flow of clothings_review.py: read_data,          *)
(* preprocess_data, create_dataset and train_model, run one after the      *)
(* other by main under the runner's retry policy.                          *)
(*                                                                         *)
(* Text is a sequence of ASCII codes.  A table is a sequence of rows       *)
(* [idx, text, label]: idx is the value of the index column, text the      *)
(* 'Review Text' cell and label the 'Recommended IND' cell.  A cell is     *)
(* [kind, s]: kind "str" with its characters s, kind "nan" (a missing      *)
(* value) or kind "num" (a number, not a string).                          *)
(***************************************************************************)
EXTENDS Integers, Sequences, FiniteSets, TLC

VARIABLES
    data,        \* the table handed to preprocess_data
    cache,       \* the file data/corpus_y.pickle: [exists, bytes]
    pre_ret,     \* what the last call of preprocess_data did: [outcome, branch, corpus, y]
    calls,       \* calls of preprocess_data made so far
    ds_args,     \* the arguments of the last call of create_dataset: [test_size, random_state]
    ds_ret,      \* what the last call of create_dataset did
    csv,         \* the input file Womens_Clothing_E-Commerce_Reviews.csv: [exists, table]
    flow_state,  \* main: "Idle", "Running", "Completed" or "Failed"
    task_state,  \* each task: "Pending", "Running", "AwaitingRetry", "Completed" or "Failed"
    run_count,   \* each task: the attempts started so far
    loc,         \* train_model's place: [cfg, at], the configuration and the next step in it
    runs,        \* the tracking service's runs, oldest first
    train_failures \* for each failed attempt of train_model, the configurations it had completed

pre_vars == <<data, cache, pre_ret, calls>>
ds_vars == <<ds_args, ds_ret>>
flow_vars == <<csv, flow_state, task_state, run_count, loc, runs, train_failures>>
vars == <<pre_vars, ds_vars, flow_vars>>

----------------------------------------------------------------------------
(* Bounds of the model. *)

MaxLen == 3
MaxRows == 2
MaxCalls == 2
MaxSamples == 3

----------------------------------------------------------------------------
(* Sequence helpers. *)

RECURSIVE SeqsUpTo(_, _)
SeqsUpTo(S, n) ==
    IF n = 0 THEN {<<>>}
    ELSE LET shorter == SeqsUpTo(S, n - 1)
         IN  shorter \cup {Append(q, x) : q \in {r \in shorter : Len(r) = n - 1}, x \in S}

RECURSIVE Flatten(_)
Flatten(ss) == IF ss = <<>> THEN <<>> ELSE Head(ss) \o Flatten(Tail(ss))

----------------------------------------------------------------------------
(* Cleaning of one review, lines 53-58. *)

\* re.sub('[^a-zA-z]', ' ', s): the classes are a-z (97..122) and A-z (65..122)
re_sub(s) ==
    [k \in 1..Len(s) |->
        IF (s[k] >= 97 /\ s[k] <= 122) \/ (s[k] >= 65 /\ s[k] <= 122)
        THEN s[k] ELSE 32]

\* str.lower on ASCII text
lower(s) == [k \in 1..Len(s) |-> IF s[k] >= 65 /\ s[k] <= 90 THEN s[k] + 32 ELSE s[k]]

\* the ASCII whitespace str.split() separates on
Whitespace == {9, 10, 11, 12, 13, 28, 29, 30, 31, 32}

\* str.split(): the maximal runs of non-whitespace, in order
RECURSIVE SplitFrom(_, _, _)
SplitFrom(s, k, word) ==
    IF k > Len(s) THEN (IF word = <<>> THEN <<>> ELSE <<word>>)
    ELSE IF s[k] \in Whitespace
         THEN (IF word = <<>> THEN <<>> ELSE <<word>>) \o SplitFrom(s, k + 1, <<>>)
         ELSE SplitFrom(s, k + 1, Append(word, s[k]))

split(s) == SplitFrom(s, 1, <<>>)

\* stopwords.words('english') restricted to the words over the letters a, b, s:
\* "a", "as", "s"
stopwords == {<<97>>, <<97, 115>>, <<115>>}

\* PorterStemmer().stem on words over the letters a, b, s and non-letters: a word
\* of at most two characters is returned as it is, step 1a keeps a final "ss" and
\* drops any other final "s"; no later step has a suffix over these letters.
stem(w) ==
    IF Len(w) <= 2 THEN w
    ELSE IF w[Len(w)] = 115 /\ w[Len(w) - 1] # 115 THEN SubSeq(w, 1, Len(w) - 1)
    ELSE w

\* ' '.join(words)
RECURSIVE join(_)
join(words) ==
    IF words = <<>> THEN <<>>
    ELSE IF Len(words) = 1 THEN words[1]
    ELSE words[1] \o <<32>> \o join(Tail(words))

\* the body of the loop over the rows: one review to its cleaned string
clean(s) ==
    LET review == split(lower(re_sub(s)))
        kept == SelectSeq(review, LAMBDA w : w \notin stopwords)
    IN  join([k \in 1..Len(kept) |-> stem(kept[k])])

----------------------------------------------------------------------------
(* The cache file, lines 61-66. *)

NoFile == [exists |-> FALSE, bytes |-> <<>>]

\* one string: its length, then its characters
DumpStr(s) == <<Len(s)>> \o s

\* pickle.dump((corpus, y)): the corpus' length and strings, then the label
\* series' length and its (index, value) pairs
pickle_dump(corpus, y) ==
    <<Len(corpus)>> \o Flatten([k \in 1..Len(corpus) |-> DumpStr(corpus[k])])
    \o <<Len(y)>> \o Flatten([k \in 1..Len(y) |-> <<y[k].idx, y[k].label>>])

\* reads n strings from position p on: <<the strings, the position after them>>
RECURSIVE LoadStrs(_, _, _)
LoadStrs(b, p, n) ==
    IF n = 0 THEN [strs |-> <<>>, next |-> p]
    ELSE LET rest == LoadStrs(b, p + 1 + b[p], n - 1)
         IN  [strs |-> <<SubSeq(b, p + 1, p + b[p])>> \o rest.strs, next |-> rest.next]

\* pickle.load: the pair a dump holds
pickle_load(b) ==
    LET c == LoadStrs(b, 2, b[1])
        m == b[c.next]
    IN  [corpus |-> c.strs,
         y |-> [k \in 1..m |-> [idx |-> b[c.next + 2 * k - 1], label |-> b[c.next + 2 * k]]]]

----------------------------------------------------------------------------
(* preprocess_data, lines 41-70. *)

\* before any call: nothing returned, nothing printed
NoReturn == [outcome |-> "none", branch |-> "none", corpus |-> <<>>, y |-> <<>>]

\* the missing reviews filled with '' and kept
dropna_fills(d) == [k \in 1..Len(d) |-> IF d[k].text.kind = "nan"
                                         THEN [d[k] EXCEPT !.text = [kind |-> "str", s |-> <<>>]]
                                         ELSE d[k]]

\* data[~data['Review Text'].isnull()]
dropna(d) == SelectSeq(d, LAMBDA r : r.text.kind # "nan")

\* y = data['Recommended IND']: the labels of the kept rows under their own index
labels(d) == [k \in 1..Len(d) |-> [idx |-> d[k].idx, label |-> d[k].label]]

\* X['Review Text'][i] under the table's own index: the text of the one row
\* labelled i (counted from 0), and nothing to clean when there is not one
review_at_own_index(d, i) ==
    LET hits == {k \in 1..Len(d) : d[k].idx = i - 1}
    IN  IF Cardinality(hits) = 1 THEN d[CHOOSE k \in hits : TRUE].text
        ELSE [kind |-> "num", s |-> <<>>]

\* X.index = np.arange(len(X)) makes X['Review Text'][i] the text of the i-th
\* kept row (rows are numbered from 1 here)
review_at(d, i) == d[i].text

\* re.sub raises TypeError on a cell that is not a string
raises(d) == \E i \in 1..Len(d) : review_at(d, i).kind # "str"

\* the rows cleaned before the first one re.sub raises on
cleaned_before_raise(d) ==
    LET bad == {i \in 1..Len(d) : review_at(d, i).kind # "str"}
        stop == IF bad = {} THEN Len(d) + 1 ELSE CHOOSE i \in bad : \A j \in bad : i <= j
    IN  SubSeq(d, 1, stop - 1)

\* the file written while the rows are still being cleaned: what a raise leaves
create_corpus_cache_per_row(d, c) ==
    LET kept == dropna(d)
        done == cleaned_before_raise(kept)
        corpus == [i \in 1..Len(done) |-> clean(review_at(done, i).s)]
    IN  [outcome |-> IF raises(kept) THEN "raised" ELSE "returned",
         branch |-> "created",
         corpus |-> IF raises(kept) THEN <<>> ELSE corpus,
         y |-> IF raises(kept) THEN <<>> ELSE labels(kept),
         cache |-> [exists |-> TRUE, bytes |-> pickle_dump(corpus, labels(done))]]

\* lines 44-62, the cache file not found: drop the rows without a review, clean
\* every review, and only then write the file
create_corpus(d, c) ==
    LET kept == dropna(d)
        corpus == [i \in 1..Len(kept) |-> clean(review_at(kept, i).s)]
        y == labels(kept)
    IN  IF raises(kept)
        THEN [outcome |-> "raised", branch |-> "created",
              corpus |-> <<>>, y |-> <<>>, cache |-> c]
        ELSE [outcome |-> "returned", branch |-> "created",
              corpus |-> corpus, y |-> y,
              cache |-> [exists |-> TRUE, bytes |-> pickle_dump(corpus, y)]]

\* lines 64-66, the cache file found: the pair it holds
load_corpus(c) ==
    LET pair == pickle_load(c.bytes)
    IN  [outcome |-> "returned", branch |-> "loaded",
         corpus |-> pair.corpus, y |-> pair.y, cache |-> c]

\* the cache checked against the table: the file is used only when it holds
\* what the table gives
preprocess_data_checks_cache(d, c) ==
    IF c.exists /\ create_corpus(d, NoFile).cache = c THEN load_corpus(c)
    ELSE create_corpus(d, NoFile)

\* the whole call on table d with the cache file as c: what it does (returns
\* or raises), the branch it printed ("created": not found, creating new data;
\* "loaded": found, loading), the pair it returns, and the cache file afterwards
preprocess_data(d, c) == IF ~c.exists THEN create_corpus(d, c) ELSE load_corpus(c)

\* what the caller sees of a call
Returned(r) == [outcome |-> r.outcome, branch |-> r.branch, corpus |-> r.corpus, y |-> r.y]

----------------------------------------------------------------------------
(* create_dataset, lines 79-89.  A test fraction is written in percent. *)

num_words == 3000

\* the Tokenizer's default filters: !"#$%&()*+,-./:;<=>?@[\]^_`{|}~ tab newline
TokenizerFilters == (33..47 \ {39}) \cup (58..64) \cup (91..96) \cup (123..126) \cup {9, 10}

\* text.split(' ') without its empty strings
RECURSIVE SplitSpaces(_, _, _)
SplitSpaces(s, k, word) ==
    IF k > Len(s) THEN (IF word = <<>> THEN <<>> ELSE <<word>>)
    ELSE IF s[k] = 32
         THEN (IF word = <<>> THEN <<>> ELSE <<word>>) \o SplitSpaces(s, k + 1, <<>>)
         ELSE SplitSpaces(s, k + 1, Append(word, s[k]))

\* text_to_word_sequence: lower, filtered characters to spaces, split on spaces
text_to_word_sequence(s) ==
    LET low == lower(s)
        spaced == [k \in 1..Len(low) |-> IF low[k] \in TokenizerFilters THEN 32 ELSE low[k]]
    IN  SplitSpaces(spaced, 1, <<>>)

\* fit_on_texts: the words by falling count, words of one count in the order
\* they were first seen (the sort is stable)
sorted_voc(corpus) ==
    LET all == Flatten([k \in 1..Len(corpus) |-> text_to_word_sequence(corpus[k])])
        words == {all[k] : k \in 1..Len(all)}
        count(w) == Cardinality({k \in 1..Len(all) : all[k] = w})
        first(w) == CHOOSE k \in 1..Len(all) : all[k] = w /\ \A j \in 1..(k - 1) : all[j] # w
        rank(w) == 1 + Cardinality({v \in words :
                        count(v) > count(w) \/ (count(v) = count(w) /\ first(v) < first(w))})
    IN  [r \in 1..Cardinality(words) |-> CHOOSE w \in words : rank(w) = r]

\* word_index[w]
word_index(voc, w) == CHOOSE r \in 1..Len(voc) : voc[r] = w

\* texts_to_sequences: the indices of a text's words, those from num_words on left out
texts_to_sequences(voc, corpus) ==
    [k \in 1..Len(corpus) |->
        LET ws == text_to_word_sequence(corpus[k])
            known == SelectSeq(ws, LAMBDA w : w \in {voc[r] : r \in 1..Len(voc)})
            ids == [j \in 1..Len(known) |-> word_index(voc, known[j])]
        IN  SelectSeq(ids, LAMBDA i : i < num_words)]

Max(S) == CHOOSE m \in S : \A x \in S : x <= m

\* pad_sequences(sequences, padding='post'): zeros after each sequence up to the
\* longest one's length
pad_sequences(seqs) ==
    LET maxlen == Max({Len(seqs[k]) : k \in 1..Len(seqs)})
    IN  [k \in 1..Len(seqs) |->
            [j \in 1..maxlen |-> IF j <= Len(seqs[k]) THEN seqs[k][j] ELSE 0]]

\* the permutation of 1..n the split draws for a seed: one fixed permutation for
\* each (n, seed), standing for RandomState(seed).permutation(n)
permutation(n, seed) == [i \in 1..n |-> ((i + seed) % n) + 1]

\* train_test_split(X, y, test_size, random_state): n_test = ceil(test_size * n),
\* the first n_test of the permutation are the test rows, the rest the train rows
train_test_split(X, y, test_size, random_state) ==
    LET n == Len(X)
        n_test == (test_size * n + 99) \div 100
        n_train == n - n_test
        perm == permutation(n, random_state)
        test == [k \in 1..n_test |-> perm[k]]
        train == [k \in 1..n_train |-> perm[n_test + k]]
    IN  IF Len(y) # n \/ n = 0 \/ n_train = 0
        THEN [outcome |-> "raised", X_train |-> <<>>, X_test |-> <<>>,
              y_train |-> <<>>, y_test |-> <<>>]
        ELSE [outcome |-> "returned",
              X_train |-> [k \in 1..n_train |-> X[train[k]]],
              X_test |-> [k \in 1..n_test |-> X[test[k]]],
              y_train |-> [k \in 1..n_train |-> y[train[k]]],
              y_test |-> [k \in 1..n_test |-> y[test[k]]]]

\* nothing returned, and train_test_split not called (no test fraction)
NoDataset ==
    [outcome |-> "none", X_train |-> <<>>, X_test |-> <<>>, y_train |-> <<>>,
     y_test |-> <<>>, tokenizer |-> <<>>, split |-> [test_size |-> 0, random_state |-> 0]]

\* the whole call: the split it returns with the fitted vocabulary, or that it
\* raises (pad_sequences does on no sequence at all), and the test fraction and
\* seed train_test_split was called with, line 86: test_size = 0.20, random_state = 0
create_dataset(corpus, y, test_size, random_state) ==
    LET tokenizer == sorted_voc(corpus)
        sequences == texts_to_sequences(tokenizer, corpus)
    IN  IF Len(sequences) = 0
        THEN [NoDataset EXCEPT !.outcome = "raised"]
        ELSE LET parts == train_test_split(pad_sequences(sequences), y, 20, 0)
             IN  [outcome |-> parts.outcome, X_train |-> parts.X_train,
                  X_test |-> parts.X_test, y_train |-> parts.y_train,
                  y_test |-> parts.y_test,
                  tokenizer |-> IF parts.outcome = "returned" THEN tokenizer ELSE <<>>,
                  split |-> [test_size |-> 20, random_state |-> 0]]

----------------------------------------------------------------------------
(* Inputs. *)

\* the characters reviews are written in: space ! 1 A S [ _ a b s
Chars == {32, 33, 49, 65, 83, 91, 95, 97, 98, 115}

Str(s) == [kind |-> "str", s |-> s]
NaN == [kind |-> "nan", s |-> <<>>]
Num == [kind |-> "num", s |-> <<>>]

\* "As b_s", "Bass!"
SampleTexts == {Str(<<65, 115, 32, 98, 95, 115>>), Str(<<66, 97, 115, 115, 33>>)}

Cells == SampleTexts \cup {NaN, Num}

IndexValues == {0, 1}

Rows == [idx : IndexValues, text : Cells, label : {0, 1}]

Tables == SeqsUpTo(Rows, MaxRows)

\* the tables an earlier run of the flow may have left its cache from
EarlierTables ==
    { <<>>,
      <<[idx |-> 0, text |-> Str(<<66, 97, 115, 115, 33>>), label |-> 1]>>,
      <<[idx |-> 4, text |-> Str(<<98, 97, 98>>), label |-> 0],
        [idx |-> 2, text |-> NaN, label |-> 1],
        [idx |-> 9, text |-> Str(<<65, 32, 98, 49>>), label |-> 1]>> }

EarlierCaches == {preprocess_data(t, NoFile).cache : t \in EarlierTables}

\* def create_dataset(corpus, y, test_size=0.2, random_state=0)
DefaultArgs == [test_size |-> 20, random_state |-> 0]

\* the arguments a caller may pass
TestSizes == {20, 50}
Seeds == {0, 1}

----------------------------------------------------------------------------
(* The flow: main, lines 173-182, and the tasks' retry policy, lines 23-28,   *)
(* 35-40, 73-78 and 92-97.                                                   *)

\* the tasks in the order main calls them
TaskSeq == <<"read_data", "preprocess_data", "create_dataset", "train_model">>
Tasks == {TaskSeq[k] : k \in 1..Len(TaskSeq)}
Order(t) == CHOOSE k \in 1..Len(TaskSeq) : TaskSeq[k] = t

\* one retry fewer
retries_two(t) == 2

\* @task(retries=3)
retries(t) == 3

\* zip([32, 64, 128], [32, 64]): the shorter list ends the zip
Configs_short_zip ==
    <<[embedding_dim |-> 32, batch_size |-> 32],
      [embedding_dim |-> 64, batch_size |-> 64]>>

\* zip([32, 64, 128], [32, 64, 128])
Configs ==
    <<[embedding_dim |-> 32, batch_size |-> 32],
      [embedding_dim |-> 64, batch_size |-> 64],
      [embedding_dim |-> 128, batch_size |-> 128]>>

NoLoc == [cfg |-> 0, at |-> "none"]

\* the flow has not been started
FlowIdle ==
    /\ csv = [exists |-> FALSE, table |-> <<>>]
    /\ flow_state = "Idle"
    /\ task_state = [t \in Tasks |-> "Pending"]
    /\ run_count = [t \in Tasks |-> 0]
    /\ loc = NoLoc
    /\ runs = <<>>
    /\ train_failures = <<>>

\* the tasks submitted without waiting for one another
may_start_any(t) == TRUE

\* main calls a task once the call before it has returned
may_start(t) == \A u \in Tasks : Order(u) < Order(t) => task_state[u] = "Completed"

\* a retry of train_model going on from the configuration that raised
body_start_resumes(t, place) ==
    IF t = "train_model"
    THEN [cfg |-> IF place.cfg >= 1 THEN place.cfg ELSE 1, at |-> "start_run"]
    ELSE place

\* a task's attempt starts at the top of its body; train_model's loop at its
\* first configuration
body_start(t, place) == IF t = "train_model" THEN [cfg |-> 1, at |-> "start_run"] ELSE place

StartTask(t) ==
    /\ flow_state = "Running"
    /\ task_state[t] = "Pending"
    /\ may_start(t)
    /\ task_state' = [task_state EXCEPT ![t] = "Running"]
    /\ run_count' = [run_count EXCEPT ![t] = 1]
    /\ loc' = body_start(t, loc)
    /\ UNCHANGED <<pre_vars, ds_vars, csv, flow_state, runs, train_failures>>

\* the attempt returned
Completes(t) ==
    /\ task_state' = [task_state EXCEPT ![t] = "Completed"]
    /\ UNCHANGED <<flow_state, run_count>>

\* the attempt raised: the runner schedules another attempt while retries are
\* left, and otherwise the exception leaves main
Raises(t) ==
    /\ IF run_count[t] <= retries(t)
       THEN /\ task_state' = [task_state EXCEPT ![t] = "AwaitingRetry"]
            /\ flow_state' = flow_state
       ELSE /\ task_state' = [task_state EXCEPT ![t] = "Failed"]
            /\ flow_state' = "Failed"
    /\ UNCHANGED run_count

\* the runner starts the next attempt, from the top of the task
Retry(t) ==
    /\ task_state[t] = "AwaitingRetry"
    /\ task_state' = [task_state EXCEPT ![t] = "Running"]
    /\ run_count' = [run_count EXCEPT ![t] = @ + 1]
    /\ loc' = body_start(t, loc)
    /\ UNCHANGED <<pre_vars, ds_vars, csv, flow_state, runs, train_failures>>

\* read_data, lines 29-32: pd.read_csv raises when the file is not there
ReadData ==
    /\ task_state["read_data"] = "Running"
    /\ IF csv.exists
       THEN /\ data' = csv.table
            /\ Completes("read_data")
       ELSE /\ data' = data
            /\ Raises("read_data")
    /\ UNCHANGED <<cache, pre_ret, calls, ds_vars, csv, loc, runs, train_failures>>

RunPreprocessData ==
    /\ task_state["preprocess_data"] = "Running"
    /\ LET r == preprocess_data(data, cache)
       IN  /\ pre_ret' = Returned(r)
           /\ cache' = r.cache
           /\ IF r.outcome = "returned"
              THEN Completes("preprocess_data") ELSE Raises("preprocess_data")
    /\ calls' = calls + 1
    /\ UNCHANGED <<data, ds_vars, csv, loc, runs, train_failures>>

\* main passes the corpus and the labels only
RunCreateDataset ==
    /\ task_state["create_dataset"] = "Running"
    /\ ds_args' = DefaultArgs
    /\ ds_ret' = create_dataset(pre_ret.corpus, pre_ret.y, DefaultArgs.test_size,
                                DefaultArgs.random_state)
    /\ IF ds_ret'.outcome = "returned"
       THEN Completes("create_dataset") ELSE Raises("create_dataset")
    /\ UNCHANGED <<pre_vars, csv, loc, runs, train_failures>>

----------------------------------------------------------------------------
(* train_model, lines 98-165. *)

InTrain(at) == task_state["train_model"] = "Running" /\ loc.at = at

\* the run the with block holds is the newest one
SetLast(field, value) == [runs EXCEPT ![Len(runs)][field] = value]

\* line 100: mlflow.start_run()
TrainStartRun ==
    /\ InTrain("start_run")
    /\ runs' = Append(runs, [embedding_dim |-> Configs[loc.cfg].embedding_dim,
                             batch_size |-> Configs[loc.cfg].batch_size,
                             status |-> "RUNNING", params |-> <<>>,
                             artifacts |-> <<>>, metrics |-> <<>>])
    /\ loc' = [loc EXCEPT !.at = "fit"]
    /\ UNCHANGED <<pre_vars, ds_vars, csv, flow_state, task_state, run_count, train_failures>>

\* lines 102-156: the model, the parameters, the fit and the tokenizer artifact
TrainFit ==
    /\ InTrain("fit")
    /\ runs' = [runs EXCEPT ![Len(runs)].params = <<"train-data", "embedding-dim">>,
                            ![Len(runs)].artifacts = <<"tokenizer_pickle">>]
    /\ loc' = [loc EXCEPT !.at = "log_loss"]
    /\ UNCHANGED <<pre_vars, ds_vars, csv, flow_state, task_state, run_count, train_failures>>

\* lines 160-162: evaluate, log_metric("loss")
TrainLogLoss ==
    /\ InTrain("log_loss")
    /\ runs' = SetLast("metrics", Append(runs[Len(runs)].metrics, "loss"))
    /\ loc' = [loc EXCEPT !.at = "log_accuracy"]
    /\ UNCHANGED <<pre_vars, ds_vars, csv, flow_state, task_state, run_count, train_failures>>

\* line 163 and the end of the with block: log_metric("accuracy"), the run ends;
\* then the next configuration, or line 165 after the last one
TrainLogAccuracy ==
    /\ InTrain("log_accuracy")
    /\ runs' = [runs EXCEPT ![Len(runs)].metrics = Append(@, "accuracy"),
                            ![Len(runs)].status = "FINISHED"]
    /\ IF loc.cfg < Len(Configs)
       THEN /\ loc' = [cfg |-> loc.cfg + 1, at |-> "start_run"]
            /\ UNCHANGED <<flow_state, task_state, run_count>>
       ELSE /\ loc' = [cfg |-> loc.cfg + 1, at |-> "done"]
            /\ Completes("train_model")
    /\ UNCHANGED <<pre_vars, ds_vars, csv, train_failures>>

\* any call of the body raises: the with block ends its run as failed, and
\* nothing catches the exception
TrainRaises ==
    /\ task_state["train_model"] = "Running"
    /\ loc.at \in {"start_run", "fit", "log_loss", "log_accuracy"}
    /\ runs' = IF loc.at = "start_run" THEN runs ELSE SetLast("status", "FAILED")
    /\ train_failures' = Append(train_failures, loc.cfg - 1)
    /\ loc' = [loc EXCEPT !.at = "raised"]
    /\ Raises("train_model")
    /\ UNCHANGED <<pre_vars, ds_vars, csv>>

\* line 182 returned: main ends
MainReturns ==
    /\ flow_state = "Running"
    /\ \A t \in Tasks : task_state[t] = "Completed"
    /\ flow_state' = "Completed"
    /\ UNCHANGED <<pre_vars, ds_vars, csv, task_state, run_count, loc, runs, train_failures>>

\* the input files of the flow: none, or one of these tables
FlowTables ==
    { <<[idx |-> 0, text |-> Str(<<65, 115, 32, 98, 95, 115>>), label |-> 1],
        [idx |-> 1, text |-> NaN, label |-> 0],
        [idx |-> 2, text |-> Str(<<66, 97, 115, 115, 33>>), label |-> 0]>>,
      <<[idx |-> 0, text |-> Str(<<66, 97, 115, 115, 33>>), label |-> 1],
        [idx |-> 1, text |-> Num, label |-> 0]>>,
      <<[idx |-> 0, text |-> Str(<<66, 97, 115, 115, 33>>), label |-> 1]>> }

Init ==
    /\ csv \in {[exists |-> FALSE, table |-> <<>>]}
               \cup {[exists |-> TRUE, table |-> t] : t \in FlowTables}
    /\ cache \in {NoFile} \cup EarlierCaches
    /\ data = <<>>
    /\ pre_ret = NoReturn
    /\ calls = 0
    /\ ds_args = DefaultArgs
    /\ ds_ret = NoDataset
    /\ flow_state = "Running"
    /\ task_state = [t \in Tasks |-> "Pending"]
    /\ run_count = [t \in Tasks |-> 0]
    /\ loc = NoLoc
    /\ runs = <<>>
    /\ train_failures = <<>>

Next ==
    \/ \E t \in Tasks : StartTask(t)
    \/ \E t \in Tasks : Retry(t)
    \/ ReadData
    \/ RunPreprocessData
    \/ RunCreateDataset
    \/ TrainStartRun
    \/ TrainFit
    \/ TrainLogLoss
    \/ TrainLogAccuracy
    \/ TrainRaises
    \/ MainReturns

Spec == Init /\ [][Next]_vars

----------------------------------------------------------------------------
(* Calls of preprocess_data on its own. *)

PreprocessCall ==
    /\ calls < MaxCalls
    /\ LET r == preprocess_data(data, cache)
       IN  /\ pre_ret' = Returned(r)
           /\ cache' = r.cache
    /\ calls' = calls + 1
    /\ UNCHANGED <<data, ds_vars, flow_vars>>

\* the input file is another one at the next run, which has returned nothing yet
SourceChanges ==
    /\ calls < MaxCalls
    /\ \E t \in EarlierTables : t # data /\ data' = t
    /\ pre_ret' = NoReturn
    /\ UNCHANGED <<cache, calls, ds_vars, flow_vars>>

\* one review of any text, no cache
InitClean ==
    /\ data \in {<<[idx |-> 0, text |-> Str(s), label |-> 1]>> : s \in SeqsUpTo(Chars, MaxLen)}
    /\ cache = NoFile
    /\ pre_ret = NoReturn
    /\ calls = 0
    /\ ds_args = DefaultArgs
    /\ ds_ret = NoDataset
    /\ FlowIdle

SpecClean == InitClean /\ [][PreprocessCall]_vars

\* any table, with or without a cache of an earlier run
InitPre ==
    /\ data \in Tables
    /\ cache \in {NoFile} \cup EarlierCaches
    /\ pre_ret = NoReturn
    /\ calls = 0
    /\ ds_args = DefaultArgs
    /\ ds_ret = NoDataset
    /\ FlowIdle

NextPre == PreprocessCall \/ SourceChanges

SpecPre == InitPre /\ [][NextPre]_vars

----------------------------------------------------------------------------
(* Calls of create_dataset on its own, on what preprocess_data returns. *)

CreateDatasetCall ==
    /\ ds_ret.outcome = "none"
    /\ ds_ret' = create_dataset(pre_ret.corpus, pre_ret.y, ds_args.test_size,
                                ds_args.random_state)
    /\ UNCHANGED <<pre_vars, ds_args, flow_vars>>

\* tables of reviews, indexed 0, 1, ... as read_data numbers them
DatasetTables ==
    {[k \in 1..Len(q) |-> [idx |-> k - 1, text |-> q[k].text, label |-> q[k].label]] :
        q \in SeqsUpTo([text : SampleTexts \cup {NaN}, label : {0, 1}], MaxSamples)}

InitDataset ==
    /\ data \in DatasetTables
    /\ cache = NoFile
    /\ pre_ret = Returned(preprocess_data(data, cache))
    /\ calls = 0
    /\ ds_args \in [test_size : TestSizes, random_state : Seeds]
    /\ ds_ret = NoDataset
    /\ FlowIdle

SpecDataset == InitDataset /\ [][CreateDatasetCall]_vars

----------------------------------------------------------------------------
(* Properties of preprocess_data. *)

\* the positions of the rows that have a review, and the i-th of them
NonNull(d) == {p \in 1..Len(d) : d[p].text.kind # "nan"}
NthNonNull(d, i) == CHOOSE p \in NonNull(d) : Cardinality({q \in NonNull(d) : q <= p}) = i

\* C1: after preprocess_data returns, the corpus is as long as the label
\* sequence, and when the corpus was made from the table it has one entry for
\* each row with a review and none for a row without one.
C1_NullRowsAbsent ==
    pre_ret.outcome = "returned" =>
        /\ Len(pre_ret.corpus) = Len(pre_ret.y)
        /\ pre_ret.branch = "created" =>
               Len(pre_ret.corpus) = Cardinality(NonNull(data))

\* a table with a missing review and a present one was preprocessed
C1_Witness ==
    /\ pre_ret.outcome = "returned"
    /\ pre_ret.branch = "created"
    /\ NonNull(data) # {}
    /\ NonNull(data) # 1..Len(data)

\* C2: a call made while the cache file exists returns the pair the file holds,
\* whatever the table, cleans nothing, and leaves the file as it is.
C2_CachedPairReturned ==
    [][(cache.exists /\ calls' = calls + 1) =>
          /\ pre_ret'.outcome = "returned"
          /\ pre_ret'.branch = "loaded"
          /\ pickle_dump(pre_ret'.corpus, pre_ret'.y) = cache.bytes
          /\ cache' = cache]_vars

\* a cached pair was returned for a table that gives another pair, or none
C2_Witness ==
    /\ pre_ret.branch = "loaded"
    /\ cache.exists
    /\ \/ \E p \in 1..Len(data) : data[p].text.kind = "num"
       \/ Len(pre_ret.corpus) # Cardinality(NonNull(data))

\* C8: with the cache absent, every character of every cleaned string is a
\* lowercase letter or a space.
C8_OnlyLettersAndSpaces ==
    (pre_ret.outcome = "returned" /\ pre_ret.branch = "created") =>
        \A k \in 1..Len(pre_ret.corpus) : \A j \in 1..Len(pre_ret.corpus[k]) :
            pre_ret.corpus[k][j] \in (97..122) \cup {32}

\* C9: with the cache absent, the i-th corpus string is the cleaned review of
\* the i-th row that has a review, and the i-th label is that row's label,
\* under that row's index value.
C9_PositionallyAligned ==
    (pre_ret.outcome = "returned" /\ pre_ret.branch = "created") =>
        /\ Len(pre_ret.y) = Len(pre_ret.corpus)
        /\ \A i \in 1..Len(pre_ret.corpus) :
              /\ i <= Cardinality(NonNull(data))
              /\ LET row == data[NthNonNull(data, i)]
                 IN  /\ pre_ret.corpus[i] = clean(row.text.s)
                     /\ pre_ret.y[i].label = row.label
                     /\ pre_ret.y[i].idx = row.idx

\* a missing review comes first, and the row after it is not labelled 0
C9_Witness ==
    /\ pre_ret.outcome = "returned"
    /\ pre_ret.branch = "created"
    /\ Len(data) >= 2
    /\ data[1].text.kind = "nan"
    /\ data[2].idx # 0
    /\ Len(pre_ret.corpus) >= 1

\* C10: a call that finds no cache file and raises while cleaning leaves no
\* cache file, so the call after it recomputes; a call that returns leaves the
\* file holding the pair it returned, and the call after it returns that pair.
C10_CacheWrittenLast ==
    [][(calls' = calls + 1) =>
          /\ (~cache.exists /\ \E p \in 1..Len(data) : data[p].text.kind = "num") =>
                 (pre_ret'.outcome = "raised" /\ ~cache'.exists)
          /\ pre_ret'.outcome = "raised" => ~cache'.exists
          /\ pre_ret.outcome = "raised" => pre_ret'.branch = "created"
          /\ pre_ret'.outcome = "returned" =>
                 /\ cache'.exists
                 /\ pickle_load(cache'.bytes) =
                        [corpus |-> pre_ret'.corpus, y |-> pre_ret'.y]
          /\ pre_ret.outcome = "returned" =>
                 /\ pre_ret'.outcome = "returned"
                 /\ pre_ret'.corpus = pre_ret.corpus
                 /\ pre_ret'.y = pre_ret.y]_vars

\* the second row's review made two calls raise, after a first row was cleaned
C10_Witness ==
    /\ calls = 2
    /\ pre_ret.outcome = "raised"
    /\ ~cache.exists
    /\ Len(data) = 2
    /\ data[1].text.kind = "str"
    /\ data[2].text.kind = "num"

----------------------------------------------------------------------------
(* Properties of create_dataset. *)

\* C3: a call of create_dataset that returns has called the split with the test
\* fraction and the seed it was given, and returns the split of the padded
\* sequences and the labels for that fraction and seed.
C3_SplitUsesArguments ==
    ds_ret.outcome = "returned" =>
        LET voc == sorted_voc(pre_ret.corpus)
            padded == pad_sequences(texts_to_sequences(voc, pre_ret.corpus))
            parts == train_test_split(padded, pre_ret.y, ds_args.test_size,
                                      ds_args.random_state)
        IN  /\ ds_ret.split = ds_args
            /\ ds_ret.outcome = parts.outcome
            /\ ds_ret.X_train = parts.X_train
            /\ ds_ret.X_test = parts.X_test
            /\ ds_ret.y_train = parts.y_train
            /\ ds_ret.y_test = parts.y_test

----------------------------------------------------------------------------
(* Properties of the flow. *)

Before(t) == {u \in Tasks : Order(u) < Order(t)}
After(t) == {u \in Tasks : Order(u) > Order(t)}

\* the finished runs of the j-th configuration that hold a loss and an accuracy
FinishedRuns(j) ==
    {r \in 1..Len(runs) :
        /\ runs[r].status = "FINISHED"
        /\ runs[r].embedding_dim = <<32, 64, 128>>[j]
        /\ runs[r].batch_size = <<32, 64, 128>>[j]
        /\ runs[r].metrics = <<"loss", "accuracy">>}

C5_RetriesThenAbort ==
    /\ \A t \in Tasks :
          /\ run_count[t] <= 4
          /\ task_state[t] = "AwaitingRetry" => (run_count[t] <= 3 /\ flow_state = "Running")
          /\ task_state[t] = "Failed" =>
                 /\ run_count[t] = 4
                 /\ flow_state = "Failed"
                 /\ \A u \in After(t) : task_state[u] = "Pending" /\ run_count[u] = 0
    /\ flow_state = "Failed" =>
          /\ \E t \in Tasks : task_state[t] = "Failed"
          /\ \A t \in Tasks : task_state[t] \notin {"Running", "AwaitingRetry"}

\* preprocess_data failed after its retries
C5_Witness ==
    /\ flow_state = "Failed"
    /\ task_state["preprocess_data"] = "Failed"
    /\ calls = 4

\* C6: every attempt of train_model starts at the first configuration and
\* nothing of a failed attempt is undone: the j-th configuration has one
\* finished run with metrics for each failed attempt that had completed it,
\* and one more once the current attempt has completed it.
C6_RetryDuplicatesRuns ==
    \A j \in 1..3 :
        Cardinality(FinishedRuns(j)) =
            Cardinality({a \in 1..Len(train_failures) : train_failures[a] >= j})
            + (IF task_state["train_model"] \in {"Running", "Completed"} /\ loc.cfg > j
               THEN 1 ELSE 0)

\* an attempt failed in the third configuration and its retry completed
C6_Witness ==
    /\ task_state["train_model"] = "Completed"
    /\ train_failures = <<2>>
    /\ Cardinality(FinishedRuns(1)) = 2
    /\ Cardinality(FinishedRuns(2)) = 2
    /\ Cardinality(FinishedRuns(3)) = 1

\* C7: at most one task is running or waiting for its retry, a task that was
\* started has every task before it completed, and main completes only with
\* all four completed.
C7_StrictlySequential ==
    /\ Cardinality({t \in Tasks : task_state[t] \in {"Running", "AwaitingRetry"}}) <= 1
    /\ \A t \in Tasks :
          (task_state[t] # "Pending" \/ run_count[t] > 0) =>
              \A u \in Before(t) : task_state[u] = "Completed"
    /\ flow_state = "Completed" => \A t \in Tasks : task_state[t] = "Completed"

\* train_model waits for a retry, after the three tasks before it completed
C7_Witness ==
    /\ task_state["train_model"] = "AwaitingRetry"
    /\ \A u \in Before("train_model") : task_state[u] = "Completed" /\ run_count[u] = 1

====
